---------------------------- MODULE Spec2Model ----------------------------
(***************************************************************************)
(* A model of BeamformingBasics.py: the SensorArray geometry class, the    *)
(* frequency-domain delay_signal, create_array_signals and                 *)
(* delayandsum_beamformer.                                                 *)
(*                                                                         *)
(* Numbers.  Real values are exact rationals [n, d] (d > 0, lowest terms). *)
(* Complex values lie in the field Q(sqrt(-3)): [re, im] stands for        *)
(* re + im*sqrt(3)*i.  That field holds the 6th roots of unity, so the DFT *)
(* of 1, 2, 3 or 6 samples and every phase rotation by a multiple of 1/6   *)
(* turn are computed exactly; inputs are drawn so that every phase the     *)
(* code computes is such a multiple.  Floating-point rounding is not       *)
(* modelled.                                                               *)
(*                                                                         *)
(* Angles are rational multiples of pi: the value r stands for r*pi rad.   *)
(*                                                                         *)
(* create_narrowband_pulse (a windowed sine of random phase) only prepares *)
(* a prototype signal; the prototypes here are given sample by sample.     *)
(***************************************************************************)
EXTENDS Integers, Sequences, FiniteSets, TLC

(***************************************************************************)
(* Bounds of the model.                                                    *)
(***************************************************************************)
MaxSensors == 5       \* sensor counts M are drawn from -MaxSensors..MaxSensors
MaxLength == 4        \* array lengths L are drawn from -2..MaxLength

(***************************************************************************)
(* Exact rational arithmetic.                                              *)
(***************************************************************************)
Abs(a) == IF a < 0 THEN -a ELSE a

RECURSIVE GCD(_, _)
GCD(a, b) == IF b = 0 THEN a ELSE GCD(b, a % b)

Rat(p, q) ==
    LET s == IF q < 0 THEN -1 ELSE 1
        g == GCD(Abs(p), Abs(q))
    IN  [n |-> (s * p) \div g, d |-> (s * q) \div g]

R(k) == [n |-> k, d |-> 1]
RZero == R(0)
ROne == R(1)
RAdd(a, b) == Rat(a.n * b.d + b.n * a.d, a.d * b.d)
RNeg(a) == [n |-> -a.n, d |-> a.d]
RSub(a, b) == RAdd(a, RNeg(b))
RMul(a, b) == Rat(a.n * b.n, a.d * b.d)
RDiv(a, b) == Rat(a.n * b.d, a.d * b.n)     \* b # 0: callers guard
RLt(a, b) == a.n * b.d < b.n * a.d
RLe(a, b) == a.n * b.d <= b.n * a.d
RIsInt(a) == a.d = 1

\* Python's int(x) and numpy's astype(int): truncation toward zero.
Trunc(a) == IF a.n >= 0 THEN a.n \div a.d ELSE -((-a.n) \div a.d)

RECURSIVE RSum(_)
RSum(s) == IF s = <<>> THEN RZero ELSE RAdd(Head(s), RSum(Tail(s)))

(***************************************************************************)
(* Complex numbers re + im*sqrt(3)*i with rational re, im.                 *)
(***************************************************************************)
Cx(re, im) == [re |-> re, im |-> im]
CReal(a) == Cx(a, RZero)
CAdd(a, b) == Cx(RAdd(a.re, b.re), RAdd(a.im, b.im))
CMul(a, b) ==
    Cx(RSub(RMul(a.re, b.re), RMul(R(3), RMul(a.im, b.im))),
       RAdd(RMul(a.re, b.im), RMul(a.im, b.re)))
CConj(a) == Cx(a.re, RNeg(a.im))

RECURSIVE CSum(_)
CSum(s) == IF s = <<>> THEN CReal(RZero) ELSE CAdd(Head(s), CSum(Tail(s)))

\* A rational number of turns t is a phase this field can hold.
IsSixth(t) == RIsInt(RMul(R(6), t))

\* np.exp(-1j*2*np.pi*t) for t a multiple of 1/6 turn.
ExpMinusTurns(t) ==
    LET k == RMul(R(6), t).n % 6
    IN  CASE k = 0 -> Cx(ROne, RZero)
          [] k = 1 -> Cx(Rat(1, 2), Rat(-1, 2))
          [] k = 2 -> Cx(Rat(-1, 2), Rat(-1, 2))
          [] k = 3 -> Cx(R(-1), RZero)
          [] k = 4 -> Cx(Rat(-1, 2), Rat(1, 2))
          [] k = 5 -> Cx(Rat(1, 2), Rat(1, 2))

\* The angles whose cosine is rational (Niven), as multiples of pi.
IsNivenAngle(r) == RIsInt(RMul(R(6), r)) /\ RMul(R(6), r).n % 12 \notin {1, 5, 7, 11}

\* np.cos(r*pi).
CosPi(r) ==
    LET k == RMul(R(6), r).n % 12
    IN  CASE k = 0 -> ROne
          [] k \in {2, 10} -> Rat(1, 2)
          [] k \in {3, 9} -> RZero
          [] k \in {4, 8} -> Rat(-1, 2)
          [] k = 6 -> R(-1)

(***************************************************************************)
(* numpy helpers.                                                          *)
(***************************************************************************)
\* np.linspace(start, stop, num) for num >= 0 (endpoint included): the
\* samples start + i*step, step = (stop - start)/(num - 1), the last one set
\* to stop.
Linspace(start, stop, num) ==
    [i \in 1..num |->
        IF num = 1 THEN start
        ELSE IF i = num THEN stop
        ELSE RAdd(start, RMul(R(i - 1), RDiv(RSub(stop, start), R(num - 1))))]

\* np.zeros(n)
Zeros(n) == [i \in 1..n |-> RZero]


(***************************************************************************)
(* delay_signal                                                            *)
(***************************************************************************)
\* The signal lengths whose DFT twiddle factors are 6th roots of unity.
ExactLengths == {0, 1, 2, 3, 6}

\* np.fft.rfft(x) for a signal of N >= 1 samples: coefficients 0..N//2.
rfft(x) ==
    LET N == Len(x)
    IN  [k1 \in 1..(N \div 2 + 1) |->
            CSum([n1 \in 1..N |->
                    CMul(CReal(x[n1]), ExpMinusTurns(Rat((k1 - 1) * (n1 - 1), N)))])]

\* np.fft.irfft(X) for len(X) >= 2, with no length given: n = 2*(len(X) - 1)
\* output samples; the imaginary parts of X[0] and X[n/2] are ignored.
irfft(X) ==
    LET n == 2 * (Len(X) - 1)
        h == n \div 2
    IN  [j1 \in 1..n |->
            RDiv(RAdd(RAdd(X[1].re,
                           RSum([k \in 1..(h - 1) |->
                                   RMul(R(2),
                                        CMul(X[k + 1],
                                             CConj(ExpMinusTurns(Rat((j1 - 1) * k, n)))).re)])),
                      IF (j1 - 1) % 2 = 0 THEN X[h + 1].re ELSE RNeg(X[h + 1].re)),
                 R(n))]

\* f = np.linspace(0, fs-df, N_dft)[:N_dft//2+1], with df = fs/N_dft
FrequencyAxis(N_dft, fs) ==
    LET df == RDiv(fs, R(N_dft))
    IN  SubSeq(Linspace(RZero, RSub(fs, df), N_dft), 1, N_dft \div 2 + 1)

\* Every phase delay_signal computes for N samples lies in the model's field.
Representable(N, t0, fs) ==
    /\ N \in ExactLengths
    /\ N >= 1 => LET f == FrequencyAxis(N, fs)
                 IN  \A k \in 1..Len(f) : IsSixth(RMul(f[k], t0))

\* delay_signal(x, t0, fs): rfft refuses an empty signal, irfft a request
\* for 0 samples.
delay_signal(x, t0, fs) ==
    IF Len(x) = 0 THEN [exc |-> "ValueError"]
    ELSE LET X_f == rfft(x)
             N_dft == Len(x)
             f == FrequencyAxis(N_dft, fs)
             X_f_delayed == [k \in 1..Len(X_f) |->
                                CMul(X_f[k], ExpMinusTurns(RMul(f[k], t0)))]
         IN  IF 2 * (Len(X_f_delayed) - 1) = 0 THEN [exc |-> "ValueError"]
             ELSE [exc |-> "none", val |-> irfft(X_f_delayed)]

(***************************************************************************)
(* The caller's objects and the call frame.  A call either returns or      *)
(* raises; frame holds the locals of the call in progress, or of the last  *)
(* call as it returned or raised.                                          *)
(***************************************************************************)
VARIABLES
    array,      \* the caller's SensorArray object (state "none" before one exists)
    rec,        \* the caller's recording, as create_array_signals returned it
    frame       \* the current (or last) call: its function, position, locals

vars == <<array, rec, frame>>

NoArray == [state |-> "none"]
NoRecording == [state |-> "none"]
NoFrame == [fn |-> "none", pc |-> "idle"]

\* No call is in progress: the caller may make the next one.
AtCaller == frame.pc = "idle"

(***************************************************************************)
(* class SensorArray                                                       *)
(***************************************************************************)
\* The values the caller passes as M and L.
SensorCounts == (-MaxSensors)..MaxSensors
Lengths == (-2)..MaxLength

\* m_indices = np.linspace(-(M//2), M//2, M, dtype=int), for M >= 0
SensorIndices(M) ==
    LET ls == Linspace(R(-(M \div 2)), R(M \div 2), M)
    IN  [i \in 1..M |-> Trunc(ls[i])]

\* Variant of SensorCoordinates that lays the sensors from 0 to L instead
\* of from -L/2 to L/2.
SensorCoordinates_FromOrigin(L, M) ==
    <<Linspace(RZero, L, M), Zeros(M)>>

\* XY_array = np.zeros((2, M)); XY_array[0, :] = np.linspace(-L/2, L/2, M)
SensorCoordinates(L, M) ==
    <<Linspace(RDiv(RNeg(L), R(2)), RDiv(L, R(2)), M), Zeros(M)>>

\* Variant of create_unif_lin_array without the parity assertion.
create_unif_lin_array_NoAssert(L, M) ==
    IF M - 1 = 0 THEN [exc |-> "ZeroDivisionError", printed |-> <<>>]
    ELSE LET d == RDiv(L, R(M - 1))
         IN  IF M < 0 THEN [exc |-> "ValueError", printed |-> <<d>>]
             ELSE [exc |-> "none", printed |-> <<d>>,
                   XY |-> SensorCoordinates(L, M), d |-> d, m |-> SensorIndices(M)]

\* create_unif_lin_array(L, M): what it prints, and what it returns or raises.
\* L is a Python number, so L/0 raises; linspace refuses a negative count.
create_unif_lin_array(L, M) ==
    IF M % 2 = 0 THEN [exc |-> "AssertionError", printed |-> <<>>]
    ELSE IF M - 1 = 0 THEN [exc |-> "ZeroDivisionError", printed |-> <<>>]
    ELSE LET d == RDiv(L, R(M - 1))
         IN  IF M < 0 THEN [exc |-> "ValueError", printed |-> <<d>>]
             ELSE [exc |-> "none", printed |-> <<d>>,
                   XY |-> SensorCoordinates(L, M), d |-> d, m |-> SensorIndices(M)]

\* SensorArray(L, M): __init__ stores M and L, then the geometry.  The object
\* exists for the caller only when __init__ returns.
NewSensorArray(L, M) ==
    /\ AtCaller
    /\ LET r == create_unif_lin_array(R(L), M)
       IN  /\ frame' = [fn |-> "SensorArray", L |-> R(L), M |-> M,
                        pc |-> IF r.exc = "none" THEN "returned" ELSE "raised",
                        exc |-> r.exc, printed |-> r.printed]
           /\ array' = IF r.exc = "none"
                       THEN [state |-> "built", M |-> M, L |-> R(L),
                             XY |-> r.XY, d |-> r.d, m |-> r.m]
                       ELSE array
    /\ UNCHANGED rec

\* The caller builds geometries until it holds a recording.
Construct ==
    /\ AtCaller
    /\ rec.state = "none"
    /\ \E L \in Lengths, M \in SensorCounts : NewSensorArray(L, M)

(***************************************************************************)
(* Direct calls of delay_signal.                                           *)
(***************************************************************************)
CallDelaySignal(x, t0, fs) ==
    /\ AtCaller
    /\ LET r == delay_signal(x, t0, fs)
       IN  frame' = [fn |-> "delay_signal", x |-> x, t0 |-> t0, fs |-> fs,
                     pc |-> IF r.exc = "none" THEN "returned" ELSE "raised",
                     exc |-> r.exc,
                     out |-> IF r.exc = "none" THEN r.val ELSE <<>>]
    /\ UNCHANGED <<array, rec>>

\* Test signals, offsets (seconds) and sample rates (Hz) of direct calls.
Samples == {R(0), R(1)}
TestSignals == UNION {[1..n -> Samples] : n \in 0..3}
Offsets == {Rat(k, 3000) : k \in (-2)..3}
SampleRates == {R(500)}

Delay ==
    /\ AtCaller
    /\ \E x \in TestSignals, t0 \in Offsets, fs \in SampleRates :
          /\ Representable(Len(x), t0, fs)
          /\ CallDelaySignal(x, t0, fs)

(***************************************************************************)
(* numpy indexing and broadcasting.                                        *)
(***************************************************************************)
Min(a, b) == IF a < b THEN a ELSE b
Max(a, b) == IF a > b THEN a ELSE b

\* One bound of the slice a[i:j] of a length-len axis: a negative bound
\* counts from the end, and both are clipped to 0..len.
SliceBound(i, len) == IF i < 0 THEN Max(i + len, 0) ELSE Min(i, len)

\* The 1-based positions that a[start:stop] selects.
SlicePositions(start, stop, len) ==
    (SliceBound(start, len) + 1)..SliceBound(stop, len)

\* An array of src samples can be stored into (or added in place to) dst
\* samples: equal lengths, or a single sample broadcast over dst.
Broadcastable(src, dst) == src = dst \/ src = 1

\* The sample of v that lands on position k (1-based) of the destination.
BroadcastAt(v, k) == IF Len(v) = 1 THEN v[1] ELSE v[k]

(***************************************************************************)
(* create_array_signals                                                    *)
(***************************************************************************)
\* -SensorArrayObj.m*SensorArrayObj.d*np.cos(theta)/c0, theta in units of pi
ArrivalTimes(SensorArrayObj, theta, c0) ==
    [i \in 1..Len(SensorArrayObj.m) |->
        RDiv(RMul(RMul(R(-SensorArrayObj.m[i]), SensorArrayObj.d), CosPi(theta)), c0)]

\* np.var(p): the mean of the squared deviations from the mean (p non-empty)
Variance(p) ==
    LET mean == RDiv(RSum(p), R(Len(p)))
    IN  RDiv(RSum([i \in 1..Len(p) |-> RMul(RSub(p[i], mean), RSub(p[i], mean))]),
             R(Len(p)))

\* 10**k for an integer k
RECURSIVE TenToThe(_)
TenToThe(k) ==
    IF k = 0 THEN ROne
    ELSE IF k > 0 THEN RMul(R(10), TenToThe(k - 1))
    ELSE RDiv(TenToThe(k + 1), R(10))

\* 10**(SNR_dB/10), for SNR_dB a multiple of 10
TenToTheTenth(SNR_dB) == TenToThe(SNR_dB \div 10)

\* rng.normal(0., np.sqrt(noise_var), (M, N)): the mean 0. plus the scale
\* sqrt(noise_var) times M*N independent standard-normal draws of a
\* generator seeded afresh by the operating system.  With noise_var = 0 the
\* scale is 0 and every sample is 0 whatever the draws are.  With
\* noise_var > 0 the samples are arbitrary reals, which exact arithmetic
\* cannot enumerate: the model has no behaviour there, and SynthesisInRange
\* keeps the inputs to noise_var = 0.
NoiseFields(noise_var, M, N) ==
    IF noise_var = RZero THEN {[i \in 1..M |-> Zeros(N)]} ELSE {}

\* Lines 119-141: the locals before the loop.  np.zeros and rng.normal
\* refuse a negative sample count.
BeginCreateArraySignals(SensorArrayObj, p_signal, t_initial, T, theta0_deg, fs, c0, SNR_dB) ==
    /\ AtCaller
    /\ LET theta0 == Rat(theta0_deg, 180)
           times_of_arrival == ArrivalTimes(SensorArrayObj, theta0, c0)
           N_initial == Trunc(RMul(t_initial, fs))
           N_final == N_initial + Len(p_signal)
           N == Trunc(RMul(T, fs))
           locals == [fn |-> "create_array_signals", SensorArrayObj |-> SensorArrayObj,
                      p_signal |-> p_signal, theta0 |-> theta0, fs |-> fs, c0 |-> c0,
                      SNR_dB |-> SNR_dB,
                      times_of_arrival |-> times_of_arrival,
                      N_initial |-> N_initial, N_final |-> N_final, N |-> N,
                      m |-> 0, written |-> {}, p_array |-> <<>>,
                      pc |-> "embed", exc |-> "none"]
       IN  IF N < 0
           THEN frame' = [locals EXCEPT !.pc = "raised", !.exc = "ValueError"]
           ELSE \E noise \in IF SNR_dB.given
                             THEN NoiseFields(RDiv(Variance(p_signal),
                                                   TenToTheTenth(SNR_dB.dB)),
                                              SensorArrayObj.M, N)
                             ELSE {[i \in 1..SensorArrayObj.M |-> Zeros(N)]} :
                   frame' = [locals EXCEPT !.p_array = noise]
    /\ UNCHANGED <<array, rec>>

Running(fn, pc) == frame.fn = fn /\ frame.pc = pc

\* Line 146: p_array[m, N_initial:N_final] += p_signal
EmbedSignal ==
    /\ Running("create_array_signals", "embed")
    /\ frame.m < frame.SensorArrayObj.M
    /\ LET row == frame.m + 1
           window == SlicePositions(frame.N_initial, frame.N_final, frame.N)
           first == SliceBound(frame.N_initial, frame.N) + 1
       IN  IF Broadcastable(Len(frame.p_signal), Cardinality(window))
           THEN frame' = [frame EXCEPT
                    !.pc = "delay",
                    !.written = IF window = {} THEN @ ELSE @ \cup {frame.m},
                    !.p_array[row] = [j \in 1..frame.N |->
                        IF j \in window
                        THEN RAdd(@[j], BroadcastAt(frame.p_signal, j - first + 1))
                        ELSE @[j]]]
           ELSE frame' = [frame EXCEPT !.pc = "raised", !.exc = "ValueError"]
    /\ UNCHANGED <<array, rec>>

\* Line 149: p_array[m, :] = delay_signal(p_array[m, :], times_of_arrival[m], fs)
DelayRow ==
    /\ Running("create_array_signals", "delay")
    /\ LET row == frame.m + 1
           r == delay_signal(frame.p_array[row], frame.times_of_arrival[row], frame.fs)
       IN  IF r.exc # "none"
           THEN frame' = [frame EXCEPT !.pc = "raised", !.exc = r.exc]
           ELSE IF ~Broadcastable(Len(r.val), frame.N)
           THEN frame' = [frame EXCEPT !.pc = "raised", !.exc = "ValueError"]
           ELSE frame' = [frame EXCEPT
                    !.pc = "embed", !.m = @ + 1,
                    !.written = @ \cup {frame.m},
                    !.p_array[row] = [j \in 1..frame.N |-> BroadcastAt(r.val, j)]]
    /\ UNCHANGED <<array, rec>>

\* Line 151: return p_array (an M x N array), once the loop has run out
ReturnArraySignals ==
    /\ Running("create_array_signals", "embed")
    /\ frame.m = frame.SensorArrayObj.M
    /\ frame' = [frame EXCEPT !.pc = "returned"]
    /\ rec' = [state |-> "held", M |-> frame.SensorArrayObj.M, N |-> frame.N,
               a |-> frame.p_array,
               origin |-> [fn |-> "create_array_signals",
                           SensorArrayObj |-> frame.SensorArrayObj,
                           theta0 |-> frame.theta0, fs |-> frame.fs, c0 |-> frame.c0,
                           noiseless |-> ~frame.SNR_dB.given]]
    /\ UNCHANGED array

\* The arguments the caller draws.
Prototypes == {<<>>, <<R(1)>>, <<R(1), R(-1)>>, <<R(1), R(1), R(1)>>}
Onsets == {Rat(k, 1000) : k \in {-1, 0, 2, 6}}
Durations == {Rat(k, 1000) : k \in {-2, 0, 2, 4, 5, 6}}
ArrivalDegrees == {0, 60, 90}
Speeds == {R(1500)}
NoiseLevels == {[given |-> FALSE, dB |-> 0], [given |-> TRUE, dB |-> 0],
                [given |-> TRUE, dB |-> 20]}

\* The caller passes an array on to the signal functions only when it was
\* built with a positive length.
Usable(SensorArrayObj) ==
    SensorArrayObj.state = "built" /\ RLt(RZero, SensorArrayObj.L)

\* Every phase of a call of create_array_signals lies in the model's field
\* (and, when noise is asked for, the variance of the prototype is defined
\* and the noise variance is 0, where the noise field is known exactly).
SynthesisInRange(SensorArrayObj, p_signal, T, theta0_deg, fs, c0, SNR_dB) ==
    /\ IsNivenAngle(Rat(theta0_deg, 180))
    /\ SNR_dB.given =>
          /\ Len(p_signal) > 0
          /\ RDiv(Variance(p_signal), TenToTheTenth(SNR_dB.dB)) = RZero
    /\ LET theta0 == Rat(theta0_deg, 180)
           times_of_arrival == ArrivalTimes(SensorArrayObj, theta0, c0)
           N == Max(Trunc(RMul(T, fs)), 0)
       IN  \A i \in 1..SensorArrayObj.M : Representable(N, times_of_arrival[i], fs)

\* The caller makes one recording with the array it holds.
Synthesize ==
    /\ AtCaller
    /\ Usable(array)
    /\ rec.state = "none"
    /\ \E p_signal \in Prototypes, t_initial \in Onsets, T \in Durations,
          theta0_deg \in ArrivalDegrees, fs \in SampleRates, c0 \in Speeds,
          SNR_dB \in NoiseLevels :
             /\ SynthesisInRange(array, p_signal, T, theta0_deg, fs, c0, SNR_dB)
             /\ BeginCreateArraySignals(array, p_signal, t_initial, T, theta0_deg,
                                        fs, c0, SNR_dB)

(***************************************************************************)
(* delayandsum_beamformer                                                  *)
(***************************************************************************)
\* The caller holds a recording that did not come from create_array_signals.
\* A held recording keeps its shape (M, N), its samples, and where it came
\* from (for one that create_array_signals returned, the arguments used).
LoadRecording(p_array) ==
    /\ AtCaller
    /\ rec' = [state |-> "held", M |-> p_array.M, N |-> p_array.N, a |-> p_array.a,
               origin |-> [fn |-> "caller"]]
    /\ UNCHANGED <<array, frame>>

\* Lines 167-172: the shapes, and the zeroed (N_theta, N_time) output.
\* p_array is a held recording: its shape (M, N), its samples a, its origin.
BeginBeamformer(SensorArrayObj, p_array, theta, weights, fs, c0) ==
    /\ AtCaller
    /\ frame' = [fn |-> "delayandsum_beamformer", SensorArrayObj |-> SensorArrayObj,
                 p_array |-> p_array.a, origin |-> p_array.origin,
                 theta |-> theta, weights |-> weights,
                 fs |-> fs, c0 |-> c0,
                 N_theta |-> Len(theta), M |-> p_array.M, N_time |-> p_array.N,
                 y_beamformer |-> [i \in 1..Len(theta) |-> Zeros(p_array.N)],
                 theta_i |-> 0, m |-> 0, time_delays |-> <<>>, written |-> {},
                 pc |-> "direction", exc |-> "none"]
    /\ UNCHANGED <<array, rec>>

\* Line 178: the candidate delays of direction theta_i; with no rows to sum
\* the inner loop is skipped.
CandidateDelays ==
    /\ Running("delayandsum_beamformer", "direction")
    /\ frame.theta_i < frame.N_theta
    /\ frame' = [frame EXCEPT
          !.time_delays = ArrivalTimes(frame.SensorArrayObj,
                                       frame.theta[frame.theta_i + 1], frame.c0),
          !.m = 0,
          !.pc = IF frame.M = 0 THEN "direction" ELSE "sensor",
          !.theta_i = IF frame.M = 0 THEN @ + 1 ELSE @]
    /\ UNCHANGED <<array, rec>>

\* Line 183: y_beamformer[theta_i, :] +=
\*               weights[m]*delay_signal(p_array[m, :], -time_delays[m], fs)
\* The operands are evaluated left to right: weights[m], time_delays[m],
\* the call, the product, then the in-place sum.
DelayAndSum ==
    /\ Running("delayandsum_beamformer", "sensor")
    /\ LET k == frame.m + 1
           row == frame.theta_i + 1
       IN  IF k > Len(frame.weights) \/ k > Len(frame.time_delays)
           THEN frame' = [frame EXCEPT !.pc = "raised", !.exc = "IndexError"]
           ELSE LET r == delay_signal(frame.p_array[k], RNeg(frame.time_delays[k]),
                                      frame.fs)
                IN  IF r.exc # "none"
                    THEN frame' = [frame EXCEPT !.pc = "raised", !.exc = r.exc]
                    ELSE IF ~Broadcastable(Len(r.val), frame.N_time)
                    THEN frame' = [frame EXCEPT !.pc = "raised", !.exc = "ValueError"]
                    ELSE frame' = [frame EXCEPT
                            !.written = @ \cup {frame.theta_i},
                            !.y_beamformer[row] = [j \in 1..frame.N_time |->
                                RAdd(@[j], RMul(frame.weights[k], BroadcastAt(r.val, j)))],
                            !.m = IF k = frame.M THEN 0 ELSE k,
                            !.theta_i = IF k = frame.M THEN @ + 1 ELSE @,
                            !.pc = IF k = frame.M THEN "direction" ELSE "sensor"]
    /\ UNCHANGED <<array, rec>>

\* Lines 186-188: y_beamformer *= 1./M; return y_beamformer
ScaleAndReturn ==
    /\ Running("delayandsum_beamformer", "direction")
    /\ frame.theta_i = frame.N_theta
    /\ IF frame.M = 0
       THEN frame' = [frame EXCEPT !.pc = "raised", !.exc = "ZeroDivisionError"]
       ELSE frame' = [frame EXCEPT
               !.pc = "returned",
               !.y_beamformer = [i \in 1..frame.N_theta |-> [j \in 1..frame.N_time |->
                                    RMul(@[i][j], RDiv(ROne, R(frame.M)))]]]
    /\ UNCHANGED <<array, rec>>

\* Recordings from elsewhere: an impulse in every row.
Impulse(N) == [j \in 1..N |-> IF j = 1 THEN R(1) ELSE R(0)]
GivenRecordings ==
    {[M |-> r, N |-> n, a |-> [i \in 1..r |-> Impulse(n)]] : r \in {0, 4}, n \in 0..3}

\* The caller loads a recording instead of making one.
Load ==
    /\ AtCaller
    /\ Usable(array)
    /\ rec.state = "none"
    /\ \E p_array \in GivenRecordings : LoadRecording(p_array)

\* Candidate directions (multiples of pi) and weight vectors.
DirectionSets ==
    {<<>>, <<Rat(1, 2)>>, <<Rat(1, 3), R(0), Rat(1, 2)>>, <<R(0), Rat(1, 3), Rat(1, 2)>>}
WeightVectors == {[i \in 1..n |-> R(1)] : n \in 0..(MaxSensors + 1)}

\* Every phase of a call of delayandsum_beamformer lies in the model's field.
BeamformerInRange(SensorArrayObj, p_array, theta, fs, c0) ==
    \A i \in 1..Len(theta) :
       /\ IsNivenAngle(theta[i])
       /\ LET time_delays == ArrivalTimes(SensorArrayObj, theta[i], c0)
          IN  \A k \in 1..Min(p_array.M, SensorArrayObj.M) :
                 LET t0 == RNeg(time_delays[k])
                 IN  Representable(p_array.N, t0, fs)

\* The caller beamforms the recording it holds with the array it holds.
Beamform ==
    /\ AtCaller
    /\ Usable(array)
    /\ rec.state = "held"
    /\ \E theta \in DirectionSets, fs \in SampleRates, c0 \in Speeds :
          /\ BeamformerInRange(array, rec, theta, fs, c0)
          /\ \E weights \in WeightVectors :
                BeginBeamformer(array, rec, theta, weights, fs, c0)

\* The caller goes on after a call has returned or raised.
Resume ==
    /\ frame.pc \in {"returned", "raised"}
    /\ frame' = NoFrame
    /\ UNCHANGED <<array, rec>>

Init ==
    /\ array = NoArray
    /\ rec = NoRecording
    /\ frame = NoFrame

Next ==
    \/ Construct
    \/ Delay
    \/ Synthesize
    \/ EmbedSignal
    \/ DelayRow
    \/ ReturnArraySignals
    \/ Load
    \/ Beamform
    \/ CandidateDelays
    \/ DelayAndSum
    \/ ScaleAndReturn
    \/ Resume

Spec == Init /\ [][Next]_vars

(***************************************************************************)
(* Properties.                                                             *)
(***************************************************************************)
Finished == frame.pc \in {"returned", "raised"}

\* sum of squares over time of one output row
Energy(row) == RSum([j \in 1..Len(row) |-> RMul(row[j], row[j])])

\* C1: for a noiseless recording made by create_array_signals for arrival
\* angle theta0, a beamformer call with the same geometry, sample rate and
\* speed, unit weights and a direction set holding theta0 returns an output
\* whose maximum-energy row is at the index of theta0 or next to it.
C1_PeakAtArrivalAngle ==
    ( /\ frame.fn = "delayandsum_beamformer"
      /\ frame.pc = "returned"
      /\ frame.origin.fn = "create_array_signals"
      /\ frame.origin.noiseless
      /\ frame.origin.SensorArrayObj = frame.SensorArrayObj
      /\ frame.origin.fs = frame.fs
      /\ frame.origin.c0 = frame.c0
      /\ Len(frame.weights) = frame.M
      /\ \A k \in 1..frame.M : frame.weights[k] = ROne
      /\ \E i \in 1..frame.N_theta : frame.theta[i] = frame.origin.theta0 )
    => \E i, j \in 1..frame.N_theta :
          /\ frame.theta[i] = frame.origin.theta0
          /\ j \in {i - 1, i, i + 1}
          /\ \A k \in 1..frame.N_theta :
                RLe(Energy(frame.y_beamformer[k]), Energy(frame.y_beamformer[j]))

\* C2: delay_signal returns exactly N samples for every signal of N >= 1
\* samples.
C2_DelayKeepsLength ==
    (frame.fn = "delay_signal" /\ Len(frame.x) >= 1)
    => (frame.pc = "returned" /\ Len(frame.out) = Len(frame.x))

\* C3: whenever the embedding window [N_initial, N_final) lies inside
\* [0, N), create_array_signals returns an M x N recording without error
\* (stated for the calls with N >= 1, a positive duration).
C3_RecordingShape ==
    ( /\ frame.fn = "create_array_signals"
      /\ Finished
      /\ frame.N >= 1
      /\ 0 <= frame.N_initial
      /\ frame.N_final <= frame.N )
    => /\ frame.pc = "returned"
       /\ rec.state = "held"
       /\ rec.M = frame.SensorArrayObj.M
       /\ rec.N = frame.N
       /\ Len(rec.a) = rec.M
       /\ \A i \in 1..rec.M : Len(rec.a[i]) = rec.N

\* C4: a beamformer call whose weight vector is shorter or longer than the
\* sensor count M raises and returns no output (stated for the calls that
\* scan at least one direction over a recording matching the geometry).
C4_WrongWeightsRaise ==
    ( /\ frame.fn = "delayandsum_beamformer"
      /\ Finished
      /\ frame.N_theta >= 1
      /\ frame.M = frame.SensorArrayObj.M
      /\ Len(frame.weights) # frame.M )
    => frame.pc = "raised"

\* C5: whenever N_final > N, create_array_signals raises and returns no
\* recording, whatever the prototype length (0 and 1 included).
C5_WindowOverrunRaises ==
    ( /\ frame.fn = "create_array_signals"
      /\ Finished
      /\ frame.N_final > frame.N )
    => frame.pc = "raised"

\* C6: a beamformer call whose recording has more or fewer rows than the
\* geometry has sensors raises instead of returning an output (stated for
\* the calls that scan at least one direction).
C6_RowMismatchRaises ==
    ( /\ frame.fn = "delayandsum_beamformer"
      /\ Finished
      /\ frame.N_theta >= 1
      /\ frame.M # frame.SensorArrayObj.M )
    => frame.pc = "raised"

\* C7: constructing a SensorArray with a sensor count M that is even or
\* less than 1 raises, and the caller gets no geometry object from it.
C7_BadSensorCountRejected ==
    [][ ( /\ frame.pc = "idle"
          /\ frame'.fn = "SensorArray"
          /\ (frame'.M % 2 = 0 \/ frame'.M < 1) )
        => ( /\ frame'.pc = "raised"
             /\ frame'.exc # "none"
             /\ array' = array ) ]_vars

\* A construction with a negative odd M has raised, after an earlier one
\* had built an array.
C7_Witness ==
    /\ frame.fn = "SensorArray"
    /\ frame.M < 0
    /\ frame.M % 2 = 1
    /\ frame.pc = "raised"
    /\ array.state = "built"

\* C8: for odd M >= 3 and L > 0 the array has M pairwise distinct
\* x-coordinates symmetric about 0 with y = 0, neighbours d = L/(M-1) apart,
\* and indices running from -(M-1)/2 to (M-1)/2 in the order of the
\* positions, the middle one exactly 0.
C8_UniformSymmetricArray ==
    ( /\ array.state = "built"
      /\ array.M >= 3
      /\ array.M % 2 = 1
      /\ RLt(RZero, array.L) )
    => LET M == array.M
           x == array.XY[1]
           y == array.XY[2]
           h == (M - 1) \div 2
       IN  /\ Len(x) = M /\ Len(y) = M /\ Len(array.m) = M
           /\ \A i, j \in 1..M : i # j => x[i] # x[j]
           /\ \A i \in 1..M : x[i] = RNeg(x[M + 1 - i]) /\ y[i] = RZero
           /\ array.d = RDiv(array.L, R(M - 1))
           /\ \A i \in 1..(M - 1) : RSub(x[i + 1], x[i]) = array.d
           /\ \A i \in 1..M : array.m[i] = i - 1 - h
           /\ array.m[h + 1] = 0

\* An array of 5 sensors and positive length has just been built.
C8_Witness ==
    /\ frame.fn = "SensorArray"
    /\ frame.pc = "returned"
    /\ array.state = "built"
    /\ array.M = 5
    /\ RLt(RZero, array.L)

\* C9: every SensorArray that construction returns, whatever L and M the
\* caller gave, has strictly positive spacing d and positions and indices of
\* length M.
C9_SpacingPositive ==
    array.state = "built"
    => /\ RLt(RZero, array.d)
       /\ Len(array.XY[1]) = array.M
       /\ Len(array.m) = array.M

\* C10: in create_array_signals and delayandsum_beamformer no row of the
\* recording or of the output has been written when an error is raised.
C10_NoWriteBeforeError ==
    ( /\ frame.fn \in {"create_array_signals", "delayandsum_beamformer"}
      /\ frame.pc = "raised" )
    => frame.written = {}

=============================================================================
